---- MODULE Spec2Model ----
(***************************************************************************)
(* Booking concurrency core of the reservation system:                     *)
(*   lib/booking.ts       createBookingSafe, cancelBooking,                *)
(*                        updateBookingStatus                              *)
(*   lib/availability.ts  getAvailableSlots                                *)
(* running against the PostgreSQL store described by the Prisma schema.    *)
(* Time is counted in ticks; one tick is one slot granularity unit.        *)
(***************************************************************************)
EXTENDS Integers, Sequences, FiniteSets, TLC

VARIABLES bookings, blockedPeriods, availability, now, tx, calls

vars == <<bookings, blockedPeriods, availability, now, tx, calls>>

\* what the booking operations never write
env == <<blockedPeriods, availability, now>>

(* ------------------------------ bounds --------------------------------- *)

NumWorkers == 2
MaxTime == 2
MaxCalls == 4
MaxRules == 1

Workers == 1..NumWorkers
Times == 0..MaxTime

(* --------------------------- static tables ----------------------------- *)

\* providers table: the provider ids that exist
providers == {1, 2}

\* services table: service id |-> owning provider, duration and buffer
services ==
  [s \in {1, 2} |->
     [providerId |-> s, durationMinutes |-> 1,
      bufferTimeMinutes |-> IF s = 1 THEN 0 ELSE 1]]

\* provider id |-> time zone; time zone |-> offset from UTC in ticks
providerTimezone == [p \in providers |-> IF p = 1 THEN "UTC" ELSE "East"]
TzOffset == [z \in {"UTC", "East"} |-> IF z = "UTC" THEN 0 ELSE 1]

\* time zone of the process that runs the code
SystemTimezone == "UTC"

\* ticks in one calendar day
DayLen == 6

Emails == {"a", "b"}

Statuses == {"pending", "confirmed", "cancelled", "completed", "no_show"}

\* requested ranges with end > start, and every range a caller can send
ValidRanges == {r \in Times \X Times : r[1] < r[2]}
AllRanges == Times \X Times

\* the arguments of a call; date, customerTimezone and slot tell which slot
\* of which getAvailableSlots call the caller took the range from
NoData ==
  [providerId |-> 0, serviceId |-> 0, startTime |-> 0, endTime |-> 0,
   customerEmail |-> "", bookingId |-> 0, status |-> "",
   date |-> 0, customerTimezone |-> "", slot |-> 0]

CreateBookingData(p, s, r, e) ==
  [NoData EXCEPT !.providerId = p, !.serviceId = s, !.startTime = r[1],
                 !.endTime = r[2], !.customerEmail = e]

\* requests of one well-formed customer of provider 1
CoreReqs == {CreateBookingData(1, 1, r, "a") : r \in ValidRanges}
\* the same with malformed ranges included
AnyRangeReqs == {CreateBookingData(1, 1, r, "a") : r \in AllRanges}

\* requests naming every pairing of a provider id and a service id, the id
\* 3 naming no row
LinkReqs ==
  {CreateBookingData(p, s, r, "a") : p \in 1..3, s \in 1..3, r \in ValidRanges}

\* requests naming provider 1 or no provider and service 1 or no service
MissingReqs ==
  {CreateBookingData(p, s, r, "a") : p \in {1, 3}, s \in {1, 3},
                                     r \in ValidRanges}

\* requests of a customer of each provider, for the provider's own service
TenantReqs ==
  {CreateBookingData(p, p, r, "a") : p \in providers, r \in ValidRanges}

Idle ==
  [pc |-> "idle", op |-> "none", data |-> NoData, locks |-> {}, snap |-> 0,
   err |-> "none", result |-> "none", created |-> 0, attempts |-> 0]

(* ------------------------------ storage -------------------------------- *)

\* variant: only rows that start inside the requested range
OverlapsStartInside(s1, e1, s2, e2) == s1 >= s2 /\ s1 < e2

\* WHERE start_time < endTime AND end_time > startTime
Overlaps(s1, e1, s2, e2) == s1 < e2 /\ e1 > s2

\* rows returned (and locked) by the SELECT ... FOR UPDATE NOWAIT
ConflictIds(d) ==
  {i \in 1..Len(bookings) :
     /\ bookings[i].providerId = d.providerId
     /\ Overlaps(bookings[i].startTime, bookings[i].endTime,
                 d.startTime, d.endTime)
     /\ bookings[i].status \notin {"cancelled"}}

\* a row lock on one of ids is held by another in-flight transaction
LockedByOther(w, ids) ==
  \E v \in Workers \ {w} : tx[v].locks \cap ids # {}

\* @@unique([providerId, startTime]): the key is taken by a committed row
UniqueViolation(d) ==
  \E i \in 1..Len(bookings) :
     /\ bookings[i].providerId = d.providerId
     /\ bookings[i].startTime = d.startTime

\* the key is taken by an uncommitted insert: the INSERT waits for it
WaitsForInsert(w) ==
  \E v \in Workers \ {w} :
     /\ tx[v].pc = "created"
     /\ tx[v].data.providerId = tx[w].data.providerId
     /\ tx[v].data.startTime = tx[w].data.startTime

\* variant: the transaction runs at the default isolation level
SerializationConflictReadCommitted(w) == FALSE

\* Serializable isolation: a transaction that committed after this one's
\* snapshot inserted a row matching this one's overlap query
SerializationConflict(w) ==
  \E i \in (tx[w].snap + 1)..Len(bookings) :
     /\ bookings[i].providerId = tx[w].data.providerId
     /\ Overlaps(bookings[i].startTime, bookings[i].endTime,
                 tx[w].data.startTime, tx[w].data.endTime)

\* errors tx.booking.create can raise ("none": the insert goes through)
InsertOutcomes(w) ==
  LET errs == (IF UniqueViolation(tx[w].data) THEN {"P2002"} ELSE {})
              \cup (IF SerializationConflict(w) THEN {"40001"} ELSE {})
  IN IF errs = {} THEN {"none"} ELSE errs

BookingErrorCodes ==
  {"SLOT_UNAVAILABLE", "PROVIDER_NOT_FOUND", "SERVICE_NOT_FOUND",
   "BOOKING_NOT_FOUND", "UNAUTHORIZED", "ALREADY_CANCELLED"}

\* variant: no branch for the unique constraint violation
UniqueConstraintErrorUnhandled(e) == FALSE

\* error.code === 'P2002'
UniqueConstraintError(e) == e = "P2002"

\* variant: no branch for the lock-not-available error
CatchCodeNoLockBranch(e) ==
  IF e \in BookingErrorCodes THEN e
  ELSE IF e = "P2002" THEN "SLOT_UNAVAILABLE"
  ELSE "BOOKING_FAILED"

\* the catch block of createBookingSafe
CatchCode(e) ==
  IF e \in BookingErrorCodes THEN e
  ELSE IF UniqueConstraintError(e) THEN "SLOT_UNAVAILABLE"
  ELSE IF e = "55P03" THEN "SLOT_BUSY"
  ELSE "BOOKING_FAILED"

\* variant: a loop that tries a taken slot again
ShouldRetryUnavailable(code, attempts) ==
  code = "SLOT_UNAVAILABLE" /\ attempts < 2

\* one prisma.$transaction call per createBookingSafe call
MaxAttempts == 1

\* createBookingSafe has no retry loop: every failure is thrown to the caller
ShouldRetry(code, attempts) == FALSE

\* the transaction ends with error e: rollback, then the catch block
Fail(t, e) ==
  LET code == CatchCode(e) IN
  IF ShouldRetry(code, t.attempts)
  THEN [t EXCEPT !.pc = "retry", !.locks = {}, !.err = e]
  ELSE [t EXCEPT !.pc = "done", !.locks = {}, !.err = e, !.result = code]

\* an error thrown outside createBookingSafe's transaction
Throw(t, code) ==
  [t EXCEPT !.pc = "done", !.err = code, !.result = code]

\* callers are interchangeable: the next call is taken by the free worker
\* with the lowest number, and only while the call budget lasts
CanStart(w) ==
  /\ tx[w].pc = "idle"
  /\ calls < MaxCalls
  /\ \A v \in Workers : v < w => tx[v].pc # "idle"

(* -------------------------- createBookingSafe -------------------------- *)

\* variant: the comparison the wrong way round
HasConflictsInverted(conflicts) == Cardinality(conflicts) = 0

\* conflicts.length > 0
HasConflicts(conflicts) == Cardinality(conflicts) > 0

\* BEGIN; SELECT id FROM bookings WHERE ... FOR UPDATE NOWAIT
CreateSelect(w, d) ==
  /\ tx[w].pc \in {"idle", "retry"}
  /\ tx[w].pc = "idle" => CanStart(w)
  /\ tx[w].pc = "retry" => d = tx[w].data
  /\ calls' = IF tx[w].pc = "idle" THEN calls + 1 ELSE calls
  /\ LET c == ConflictIds(d)
         t == [tx[w] EXCEPT !.op = "create", !.data = d,
                            !.attempts = tx[w].attempts + 1,
                            !.snap = Len(bookings)]
     IN tx' = [tx EXCEPT ![w] =
                 IF LockedByOther(w, c)
                 THEN Fail(t, "55P03")
                 ELSE [t EXCEPT !.pc = "selected", !.locks = c]]
  /\ UNCHANGED <<bookings, env>>

\* variant: the provider and service lookups come before the conflict test
CreateVerifyLookupFirst(w) ==
  /\ tx[w].pc = "selected"
  /\ tx' = [tx EXCEPT ![w] =
       IF tx[w].data.providerId \notin providers
       THEN Fail(tx[w], "PROVIDER_NOT_FOUND")
       ELSE IF tx[w].data.serviceId \notin DOMAIN services
            THEN Fail(tx[w], "SERVICE_NOT_FOUND")
       ELSE IF HasConflicts(tx[w].locks) THEN Fail(tx[w], "SLOT_UNAVAILABLE")
       ELSE [tx[w] EXCEPT !.pc = "verified"]]
  /\ UNCHANGED <<bookings, calls, env>>

\* conflicts.length > 0, then the provider and service lookups
CreateVerify(w) ==
  /\ tx[w].pc = "selected"
  /\ tx' = [tx EXCEPT ![w] =
       IF HasConflicts(tx[w].locks) THEN Fail(tx[w], "SLOT_UNAVAILABLE")
       ELSE IF tx[w].data.providerId \notin providers
            THEN Fail(tx[w], "PROVIDER_NOT_FOUND")
       ELSE IF tx[w].data.serviceId \notin DOMAIN services
            THEN Fail(tx[w], "SERVICE_NOT_FOUND")
       ELSE [tx[w] EXCEPT !.pc = "verified"]]
  /\ UNCHANGED <<bookings, calls, env>>

\* tx.booking.create
CreateInsert(w) ==
  /\ tx[w].pc = "verified"
  /\ ~WaitsForInsert(w)
  /\ \E e \in InsertOutcomes(w) :
       tx' = [tx EXCEPT ![w] =
                IF e = "none" THEN [tx[w] EXCEPT !.pc = "created"]
                ELSE Fail(tx[w], e)]
  /\ UNCHANGED <<bookings, calls, env>>

\* variant: the row is left at the default status of the schema
NewBookingPending(d) ==
  [providerId |-> d.providerId, serviceId |-> d.serviceId,
   startTime |-> d.startTime, endTime |-> d.endTime,
   customerEmail |-> d.customerEmail, status |-> "pending", version |-> 1]

\* the data of tx.booking.create
NewBooking(d) ==
  [providerId |-> d.providerId, serviceId |-> d.serviceId,
   startTime |-> d.startTime, endTime |-> d.endTime,
   customerEmail |-> d.customerEmail, status |-> "confirmed", version |-> 1]

\* COMMIT
CreateCommit(w) ==
  /\ tx[w].pc = "created"
  /\ IF SerializationConflict(w)
     THEN /\ tx' = [tx EXCEPT ![w] = Fail(tx[w], "40001")]
          /\ UNCHANGED bookings
     ELSE /\ bookings' = Append(bookings, NewBooking(tx[w].data))
          /\ tx' = [tx EXCEPT ![w] =
                      [tx[w] EXCEPT !.pc = "done", !.locks = {},
                                    !.result = "OK",
                                    !.created = Len(bookings) + 1]]
  /\ UNCHANGED <<calls, env>>

\* maxWait: no transaction could be started within 3 s; $transaction
\* rejects with P2028 before the callback runs
CreateNoTransaction(w, d) ==
  /\ CanStart(w)
  /\ calls' = calls + 1
  /\ tx' = [tx EXCEPT ![w] =
              Fail([tx[w] EXCEPT !.op = "create", !.data = d,
                                 !.attempts = tx[w].attempts + 1,
                                 !.snap = Len(bookings)],
                   "P2028")]
  /\ UNCHANGED <<bookings, env>>

\* variant: a timeout after the insert keeps the inserted row
CreateTimeoutNoRollback(w) ==
  /\ tx[w].pc \in {"selected", "verified", "created"}
  /\ tx' = [tx EXCEPT ![w] = Fail(tx[w], "P2028")]
  /\ bookings' = IF tx[w].pc = "created"
                 THEN Append(bookings, NewBooking(tx[w].data))
                 ELSE bookings
  /\ UNCHANGED <<calls, env>>

\* timeout: the transaction has been open for 10 s; it is rolled back and
\* $transaction rejects with P2028
CreateTimeout(w) ==
  /\ tx[w].pc \in {"selected", "verified", "created"}
  /\ tx' = [tx EXCEPT ![w] = Fail(tx[w], "P2028")]
  /\ UNCHANGED <<bookings, calls, env>>

\* Serializable isolation as PostgreSQL implements it: the rows read by the
\* overlap query are tracked by page or by relation, so the insert or the
\* commit can be cancelled with 40001 because of any insert into bookings
\* committed after this transaction's snapshot, matching the query or not
CreateSerializationFailure(w) ==
  /\ tx[w].pc \in {"verified", "created"}
  /\ Len(bookings) > tx[w].snap
  /\ tx' = [tx EXCEPT ![w] = Fail(tx[w], "40001")]
  /\ UNCHANGED <<bookings, calls, env>>

\* the caller has received the result
Return(w) ==
  /\ tx[w].pc = "done"
  /\ tx' = [tx EXCEPT ![w] = Idle]
  /\ UNCHANGED <<bookings, calls, env>>

(* ---------------------------- cancelBooking ---------------------------- *)

\* variant: the email of the caller is not looked at
EmailMismatchIgnored(booking, customerEmail) == FALSE

\* booking.customerEmail !== customerEmail
EmailMismatch(booking, customerEmail) == booking.customerEmail # customerEmail

\* findUnique and the checks that follow it
CancelFind(w, id, email) ==
  /\ CanStart(w)
  /\ calls' = calls + 1
  /\ LET t == [tx[w] EXCEPT !.op = "cancel", !.data.bookingId = id,
                            !.data.customerEmail = email]
     IN tx' = [tx EXCEPT ![w] =
          IF id \notin 1..Len(bookings) THEN Throw(t, "BOOKING_NOT_FOUND")
          ELSE IF EmailMismatch(bookings[id], email)
               THEN Throw(t, "UNAUTHORIZED")
          ELSE IF bookings[id].status = "cancelled"
               THEN Throw(t, "ALREADY_CANCELLED")
          ELSE [t EXCEPT !.pc = "cancelling"]]
  /\ UNCHANGED <<bookings, env>>

\* variant: the update reaches every row of the reservation's provider
WhereProvider(id) ==
  {i \in 1..Len(bookings) : bookings[i].providerId = bookings[id].providerId}

\* where: { id: bookingId }
WhereId(id) == {id}

\* variant: the version is written back as it was
IncrementNone(version) == version

\* version: { increment: 1 }
Increment(version) == version + 1

\* prisma.booking.update: the rows named by where get the new status and
\* the raised version, every other column and row stays
UpdateBooking(id, status) ==
  [i \in 1..Len(bookings) |->
     IF i \in WhereId(id)
     THEN [bookings[i] EXCEPT !.status = status, !.version = Increment(@)]
     ELSE bookings[i]]

\* prisma.booking.update: waits while a transaction holds the row lock
CancelUpdate(w) ==
  /\ tx[w].pc = "cancelling"
  /\ ~LockedByOther(w, {tx[w].data.bookingId})
  /\ bookings' = UpdateBooking(tx[w].data.bookingId, "cancelled")
  /\ tx' = [tx EXCEPT ![w] = [tx[w] EXCEPT !.pc = "done", !.result = "OK"]]
  /\ UNCHANGED <<calls, env>>

(* ------------------------- updateBookingStatus ------------------------- *)

\* variant: any provider passes the ownership check
NotOwnerIgnored(booking, providerId) == FALSE

\* booking.providerId !== providerId
NotOwner(booking, providerId) == booking.providerId # providerId

\* findUnique and the ownership check
StatusFind(w, id, providerId, status) ==
  /\ CanStart(w)
  /\ calls' = calls + 1
  /\ LET t == [tx[w] EXCEPT !.op = "status", !.data.bookingId = id,
                            !.data.providerId = providerId,
                            !.data.status = status]
     IN tx' = [tx EXCEPT ![w] =
          IF id \notin 1..Len(bookings) THEN Throw(t, "BOOKING_NOT_FOUND")
          ELSE IF NotOwner(bookings[id], providerId)
               THEN Throw(t, "UNAUTHORIZED")
          ELSE [t EXCEPT !.pc = "updating"]]
  /\ UNCHANGED <<bookings, env>>

\* prisma.booking.update with updateData
StatusUpdate(w) ==
  /\ tx[w].pc = "updating"
  /\ ~LockedByOther(w, {tx[w].data.bookingId})
  /\ bookings' = UpdateBooking(tx[w].data.bookingId, tx[w].data.status)
  /\ tx' = [tx EXCEPT ![w] = [tx[w] EXCEPT !.pc = "done", !.result = "OK"]]
  /\ UNCHANGED <<calls, env>>

(* -------------------------- getAvailableSlots -------------------------- *)

\* new Date(`${date}T${time}:00`): a wall-clock reading in the system zone
LocalDate(wall) == wall - TzOffset[SystemTimezone]

\* date-fns-tz: read d's system-zone wall clock as a wall clock of zone tz
fromZonedTime(d, tz) == (d + TzOffset[SystemTimezone]) - TzOffset[tz]

\* date-fns-tz: the Date whose system-zone wall clock is d's wall clock in tz
toZonedTime(d, tz) == (d + TzOffset[tz]) - TzOffset[SystemTimezone]

startOfDay(date) == LocalDate(date * DayLen)
endOfDay(date) == LocalDate((date + 1) * DayLen - 1)

\* targetDate.getDay()
DayOfWeek(date) == date % 7

\* one tick is four hours: the hour a time of day reads
HourOf(t) == 4 * t

\* the place of ':' in the character order, after the ten digits
Colon == 10

\* the characters of a startTime string up to its ':' ; bare: the hour is
\* written without a leading zero ("4:00" for "04:00")
TimeChars(t, bare) ==
  IF bare THEN <<HourOf(t), Colon>>
  ELSE <<HourOf(t) \div 10, HourOf(t) % 10, Colon>>

\* a sorts before or with b in the order of text columns
RECURSIVE TextLeq(_, _)
TextLeq(a, b) ==
  IF a = <<>> THEN TRUE
  ELSE IF b = <<>> THEN FALSE
  ELSE IF Head(a) # Head(b) THEN Head(a) < Head(b)
  ELSE TextLeq(Tail(a), Tail(b))

\* orderBy: { startTime: 'asc' } on the String column startTime
StartTimeLeq(r, q) ==
  TextLeq(TimeChars(r.startTime, r.startBare),
          TimeChars(q.startTime, q.startBare))

\* findMany(... orderBy: { startTime: 'asc' })
RECURSIVE OrderByStartTime(_)
OrderByStartTime(rules) ==
  IF rules = {} THEN <<>>
  ELSE LET first == CHOOSE r \in rules :
                      \A q \in rules : StartTimeLeq(r, q)
       IN <<first>> \o OrderByStartTime(rules \ {first})

\* variant: only a booking that starts inside the slot counts
IsBookedStartInside(bks, currentSlotStart, currentSlotEnd) ==
  \E b \in bks : currentSlotStart <= b.startTime
                  /\ b.startTime < currentSlotEnd

\* bookings.some(...): the slot overlaps one of the loaded bookings
IsBooked(bks, currentSlotStart, currentSlotEnd) ==
  \E b \in bks : currentSlotStart < b.endTime /\ currentSlotEnd > b.startTime

\* variant: a period that touches the slot counts as overlapping
IsBlockedClosed(blks, currentSlotStart, currentSlotEnd) ==
  \E b \in blks : currentSlotStart <= b.endDatetime
                   /\ currentSlotEnd >= b.startDatetime

\* blockedPeriods.some(...): the slot overlaps one of the loaded periods
IsBlocked(blks, currentSlotStart, currentSlotEnd) ==
  \E b \in blks : currentSlotStart < b.endDatetime
                   /\ currentSlotEnd > b.startDatetime

\* variant: a slot that ends at the current instant is not yet past
IsPastStrict(currentSlotEnd) == currentSlotEnd < now

\* currentSlotEnd <= new Date()
IsPast(currentSlotEnd) == currentSlotEnd <= now

\* variant: a slot that ends exactly at the period's end is dropped
ExceedsPeriodInclusive(currentSlotEnd, periodEnd) == currentSlotEnd >= periodEnd

\* if (currentSlotEnd > periodEnd) break
ExceedsPeriod(currentSlotEnd, periodEnd) == currentSlotEnd > periodEnd

\* variant: the clock is left out of the flag
SlotAvailableAnyTime(isBooked, isBlocked, isPast) == ~isBooked /\ ~isBlocked

\* available: !isBooked && !isBlocked && !isPast
SlotAvailable(isBooked, isBlocked, isPast) == ~isBooked /\ ~isBlocked /\ ~isPast

\* the while loop over one availability rule
RECURSIVE RuleSlots(_, _, _, _, _, _)
RuleSlots(currentSlotStart, periodEnd, slotDuration, bks, blks, tz) ==
  IF ~(currentSlotStart < periodEnd) THEN <<>>
  ELSE
    LET currentSlotEnd == currentSlotStart + slotDuration
        isBooked == IsBooked(bks, currentSlotStart, currentSlotEnd)
        isBlocked == IsBlocked(blks, currentSlotStart, currentSlotEnd)
        isPast == IsPast(currentSlotEnd)
    IN IF ExceedsPeriod(currentSlotEnd, periodEnd) THEN <<>>
       ELSE <<[startTime |-> toZonedTime(currentSlotStart, tz),
               endTime |-> toZonedTime(currentSlotEnd, tz),
               available |-> SlotAvailable(isBooked, isBlocked, isPast)]>>
            \o RuleSlots(currentSlotEnd, periodEnd, slotDuration,
                         bks, blks, tz)

\* the for loop over the day's rules
RECURSIVE AllRuleSlots(_, _, _, _, _, _, _)
AllRuleSlots(rules, date, ptz, slotDuration, bks, blks, tz) ==
  IF rules = <<>> THEN <<>>
  ELSE
    LET rule == Head(rules)
        periodStart ==
          fromZonedTime(LocalDate(date * DayLen + rule.startTime), ptz)
        periodEnd ==
          fromZonedTime(LocalDate(date * DayLen + rule.endTime), ptz)
    IN RuleSlots(periodStart, periodEnd, slotDuration, bks, blks, tz)
       \o AllRuleSlots(Tail(rules), date, ptz, slotDuration, bks, blks, tz)

\* booking.findMany of the day: not cancelled, startTime inside the day
DayBookings(providerId, dayStartUTC, dayEndUTC) ==
  {bookings[i] : i \in
     {j \in 1..Len(bookings) :
        /\ bookings[j].providerId = providerId
        /\ bookings[j].startTime >= dayStartUTC
        /\ bookings[j].startTime <= dayEndUTC
        /\ bookings[j].status \notin {"cancelled"}}}

\* blockedPeriod.findMany of the day
DayBlockedPeriods(providerId, dayStartUTC, dayEndUTC) ==
  {blockedPeriods[i] : i \in
     {j \in 1..Len(blockedPeriods) :
        /\ blockedPeriods[j].providerId = providerId
        /\ blockedPeriods[j].startDatetime <= dayEndUTC
        /\ blockedPeriods[j].endDatetime >= dayStartUTC}}

\* booking.count and blockedPeriod.count over the rows of the provider that
\* overlap [startTime, endTime); conflicts === 0 && blocked === 0
isSlotAvailable(providerId, startTime, endTime) ==
  LET conflicts ==
        Cardinality({j \in 1..Len(bookings) :
           /\ bookings[j].providerId = providerId
           /\ bookings[j].startTime < endTime
           /\ bookings[j].endTime > startTime
           /\ bookings[j].status \notin {"cancelled"}})
      blocked ==
        Cardinality({j \in 1..Len(blockedPeriods) :
           /\ blockedPeriods[j].providerId = providerId
           /\ blockedPeriods[j].startDatetime < endTime
           /\ blockedPeriods[j].endDatetime > startTime})
  IN conflicts = 0 /\ blocked = 0

\* variant: the rules of the day whatever their isAvailable says
DayRulesWithDisabled(providerId, dayOfWeek) ==
  {r \in availability : r.providerId = providerId /\ r.dayOfWeek = dayOfWeek}

\* availability.findMany where { providerId, dayOfWeek, isAvailable: true }
DayRules(providerId, dayOfWeek) ==
  {r \in availability :
     /\ r.providerId = providerId
     /\ r.dayOfWeek = dayOfWeek
     /\ r.isAvailable}

\* variant: the service is looked up by its id alone
ServiceFoundById(providerId, serviceId) == serviceId \in DOMAIN services

\* service.findUnique where { id: serviceId, providerId }
ServiceFound(providerId, serviceId) ==
  /\ serviceId \in DOMAIN services
  /\ services[serviceId].providerId = providerId

\* what new Date(`${date}T${time}:00`) does with a one-digit hour is left to
\* the runtime: "strict" gives an Invalid Date, on which fromZonedTime
\* throws, "lenient" reads the hour as written
DateParsers == {"strict", "lenient"}

getAvailableSlotsBy(parser, providerId, serviceId, date, customerTimezone) ==
  IF providerId \notin providers
  THEN [code |-> "PROVIDER_NOT_FOUND", slots |-> <<>>]
  ELSE IF ~ServiceFound(providerId, serviceId)
  THEN [code |-> "SERVICE_NOT_FOUND", slots |-> <<>>]
  ELSE
    LET ptz == providerTimezone[providerId]
        slotDuration == services[serviceId].durationMinutes
                        + services[serviceId].bufferTimeMinutes
        availabilityRules ==
          OrderByStartTime(DayRules(providerId, DayOfWeek(date)))
        dayStartUTC == fromZonedTime(startOfDay(date), ptz)
        dayEndUTC == fromZonedTime(endOfDay(date), ptz)
        bks == DayBookings(providerId, dayStartUTC, dayEndUTC)
        blks == DayBlockedPeriods(providerId, dayStartUTC, dayEndUTC)
    IN IF /\ parser = "strict"
          /\ \E r \in DayRules(providerId, DayOfWeek(date)) : r.startBare
       THEN [code |-> "AVAILABILITY_FETCH_FAILED", slots |-> <<>>]
       ELSE [code |-> "OK",
             slots |-> AllRuleSlots(availabilityRules, date, ptz,
                                    slotDuration, bks, blks,
                                    customerTimezone)]

\* the runtime the callers below run on; over zero-padded times, the only
\* ones they store, the runtimes agree
getAvailableSlots(providerId, serviceId, date, customerTimezone) ==
  getAvailableSlotsBy("strict", providerId, serviceId, date, customerTimezone)

(* ---------------------------- specifications --------------------------- *)

\* the weekly schedule the seed script stores: on each working day one
\* enabled rule per provider, from after midnight to before the day's end
SeedAvailability ==
  {[providerId |-> p, dayOfWeek |-> d, startTime |-> 1, startBare |-> FALSE,
    endTime |-> DayLen - 1, isAvailable |-> TRUE] :
     p \in providers, d \in 0..1}

Init ==
  /\ bookings = <<>>
  /\ blockedPeriods = <<>>
  /\ availability = SeedAvailability
  /\ now = 0
  /\ tx = [w \in Workers |-> Idle]
  /\ calls = 0

\* booking ids a caller can name: the rows that exist and one that does not
BookingIds == 1..(Len(bookings) + 1)

\* every operation, in every interleaving
Next ==
  \E w \in Workers :
    \/ \E d \in CoreReqs : CreateSelect(w, d)
    \/ CreateVerify(w)
    \/ CreateInsert(w)
    \/ CreateCommit(w)
    \/ \E id \in BookingIds, e \in Emails : CancelFind(w, id, e)
    \/ CancelUpdate(w)
    \/ \E id \in BookingIds, p \in providers, s \in Statuses :
         StatusFind(w, id, p, s)
    \/ StatusUpdate(w)
    \/ Return(w)

Spec == Init /\ [][Next]_vars

\* createBookingSafe calls only, each worker calling again after it returns
NextAdmit ==
  \E w \in Workers :
    \/ \E d \in CoreReqs : CreateSelect(w, d)
    \/ CreateVerify(w)
    \/ CreateInsert(w)
    \/ CreateCommit(w)
    \/ Return(w)

SpecAdmit == Init /\ [][NextAdmit]_vars

\* one createBookingSafe call per worker, all against a clean schedule
NextRace ==
  \E w \in Workers :
    \/ \E d \in CoreReqs : CreateSelect(w, d)
    \/ CreateVerify(w)
    \/ CreateInsert(w)
    \/ CreateCommit(w)

SpecRace == Init /\ [][NextRace]_vars

\* one createBookingSafe call per worker, on a store slow enough for the
\* bounds of the transaction options to be reached
NextTimeout ==
  \E w \in Workers :
    \/ \E d \in CoreReqs : CreateSelect(w, d)
    \/ \E d \in CoreReqs : CreateNoTransaction(w, d)
    \/ CreateVerify(w)
    \/ CreateInsert(w)
    \/ CreateTimeout(w)
    \/ CreateCommit(w)

SpecTimeout == Init /\ [][NextTimeout]_vars

\* one createBookingSafe call per worker, with the serialization failures
\* of page and relation granularity
NextRaceCoarse ==
  \E w \in Workers :
    \/ \E d \in CoreReqs : CreateSelect(w, d)
    \/ CreateVerify(w)
    \/ CreateInsert(w)
    \/ CreateSerializationFailure(w)
    \/ CreateCommit(w)

SpecRaceCoarse == Init /\ [][NextRaceCoarse]_vars

\* the same with calls for both providers
NextTenants ==
  \E w \in Workers :
    \/ \E d \in TenantReqs : CreateSelect(w, d)
    \/ CreateVerify(w)
    \/ CreateInsert(w)
    \/ CreateSerializationFailure(w)
    \/ CreateCommit(w)

SpecTenants == Init /\ [][NextTenants]_vars

\* no two calls overlap in time: a call starts when every other has returned
Alone(w) == \A v \in Workers \ {w} : tx[v].pc = "idle"

NextSeq ==
  \E w \in Workers :
    \/ Alone(w) /\ \E d \in CoreReqs : CreateSelect(w, d)
    \/ Alone(w) /\ CreateVerify(w)
    \/ Alone(w) /\ CreateInsert(w)
    \/ Alone(w) /\ CreateCommit(w)
    \/ Alone(w) /\ \E id \in BookingIds, e \in Emails : CancelFind(w, id, e)
    \/ Alone(w) /\ CancelUpdate(w)
    \/ Alone(w) /\ \E id \in BookingIds, p \in providers, s \in Statuses :
                     StatusFind(w, id, p, s)
    \/ Alone(w) /\ StatusUpdate(w)
    \/ Alone(w) /\ Return(w)

SpecSeq == Init /\ [][NextSeq]_vars

\* createBookingSafe calls one after another, with any start and end
NextAnyRange ==
  \E w \in Workers :
    \/ Alone(w) /\ \E d \in AnyRangeReqs : CreateSelect(w, d)
    \/ Alone(w) /\ CreateVerify(w)
    \/ Alone(w) /\ CreateInsert(w)
    \/ Alone(w) /\ CreateCommit(w)
    \/ Alone(w) /\ Return(w)

SpecAnyRange == Init /\ [][NextAnyRange]_vars

\* createBookingSafe calls one after another, with any provider and service id
NextLink ==
  \E w \in Workers :
    \/ Alone(w) /\ \E d \in LinkReqs : CreateSelect(w, d)
    \/ Alone(w) /\ CreateVerify(w)
    \/ Alone(w) /\ CreateInsert(w)
    \/ Alone(w) /\ CreateCommit(w)
    \/ Alone(w) /\ Return(w)

SpecLink == Init /\ [][NextLink]_vars

\* the one request of the specifications about status changes
OneReq == {CreateBookingData(1, 1, <<0, 1>>, "a")}

\* createBookingSafe calls one after another and concurrent cancelBooking
\* calls
NextCancel ==
  \E w \in Workers :
    \/ Alone(w) /\ \E d \in OneReq : CreateSelect(w, d)
    \/ Alone(w) /\ CreateVerify(w)
    \/ Alone(w) /\ CreateInsert(w)
    \/ Alone(w) /\ CreateCommit(w)
    \/ \E id \in BookingIds, e \in Emails : CancelFind(w, id, e)
    \/ CancelUpdate(w)
    \/ Return(w)

SpecCancel == Init /\ [][NextCancel]_vars

\* the same with concurrent updateBookingStatus calls
NextStatus ==
  \E w \in Workers :
    \/ Alone(w) /\ \E d \in OneReq : CreateSelect(w, d)
    \/ Alone(w) /\ CreateVerify(w)
    \/ Alone(w) /\ CreateInsert(w)
    \/ Alone(w) /\ CreateCommit(w)
    \/ \E id \in BookingIds, e \in Emails : CancelFind(w, id, e)
    \/ CancelUpdate(w)
    \/ \E id \in BookingIds, p \in providers, s \in Statuses :
         StatusFind(w, id, p, s)
    \/ StatusUpdate(w)
    \/ Return(w)

SpecStatus == Init /\ [][NextStatus]_vars

\* the stores createBookingSafe can find besides the bookings table: provider
\* 1 blocked for the whole time or not, the seeded rules or none, the clock
\* before or after the requested ranges
InitEnv ==
  /\ bookings = <<>>
  /\ blockedPeriods \in
       {<<>>, <<[providerId |-> 1, startDatetime |-> 0,
                 endDatetime |-> MaxTime]>>}
  /\ availability \in {SeedAvailability, {}}
  /\ now \in {0, MaxTime}
  /\ tx = [w \in Workers |-> Idle]
  /\ calls = 0

\* createBookingSafe and cancelBooking calls one after another
NextEnv ==
  \E w \in Workers :
    \/ Alone(w) /\ \E d \in MissingReqs : CreateSelect(w, d)
    \/ Alone(w) /\ CreateVerify(w)
    \/ Alone(w) /\ CreateInsert(w)
    \/ Alone(w) /\ CreateCommit(w)
    \/ Alone(w) /\ \E id \in BookingIds, e \in Emails : CancelFind(w, id, e)
    \/ Alone(w) /\ CancelUpdate(w)
    \/ Alone(w) /\ Return(w)

SpecEnv == InitEnv /\ [][NextEnv]_vars

\* variant: only an end before the start is refused
InvalidPeriodStrict(startDatetime, endDatetime) == endDatetime < startDatetime

\* endDatetime <= startDatetime
InvalidPeriod(startDatetime, endDatetime) == endDatetime <= startDatetime

\* createBlockedPeriod: the bounds check, then blockedPeriod.create
createBlockedPeriod(w, providerId, startDatetime, endDatetime) ==
  /\ CanStart(w)
  /\ calls' = calls + 1
  /\ LET t == [tx[w] EXCEPT !.op = "block", !.data.providerId = providerId,
                            !.data.startTime = startDatetime,
                            !.data.endTime = endDatetime]
     IN IF InvalidPeriod(startDatetime, endDatetime)
        THEN /\ tx' = [tx EXCEPT ![w] = Throw(t, "INVALID_PERIOD")]
             /\ UNCHANGED blockedPeriods
        ELSE /\ tx' = [tx EXCEPT ![w] =
                         [t EXCEPT !.pc = "done", !.result = "OK"]]
             /\ blockedPeriods' =
                  Append(blockedPeriods,
                         [providerId |-> providerId,
                          startDatetime |-> startDatetime,
                          endDatetime |-> endDatetime])
  /\ UNCHANGED <<bookings, availability, now>>

\* deleteBlockedPeriod: findUnique, the ownership check, then
\* blockedPeriod.delete; a row is named by its place in the table
deleteBlockedPeriod(w, id, providerId) ==
  /\ CanStart(w)
  /\ calls' = calls + 1
  /\ LET t == [tx[w] EXCEPT !.op = "unblock", !.data.bookingId = id,
                            !.data.providerId = providerId]
     IN IF id \notin 1..Len(blockedPeriods)
        THEN /\ tx' = [tx EXCEPT ![w] = Throw(t, "BLOCKED_PERIOD_NOT_FOUND")]
             /\ UNCHANGED blockedPeriods
        ELSE IF blockedPeriods[id].providerId # providerId
        THEN /\ tx' = [tx EXCEPT ![w] = Throw(t, "UNAUTHORIZED")]
             /\ UNCHANGED blockedPeriods
        ELSE /\ tx' = [tx EXCEPT ![w] =
                         [t EXCEPT !.pc = "done", !.result = "OK"]]
             /\ blockedPeriods' =
                  SubSeq(blockedPeriods, 1, id - 1)
                  \o SubSeq(blockedPeriods, id + 1, Len(blockedPeriods))
  /\ UNCHANGED <<bookings, availability, now>>

\* the bounds a provider asks to block: end after, at and before the start
BlockRanges == {<<0, 1>>, <<0, 2>>, <<1, 1>>, <<1, 0>>}

\* the provider's calls on blocked periods, beside createBookingSafe calls
\* made one after another
NextBlocks ==
  \E w \in Workers :
    \/ \E p \in providers, r \in BlockRanges :
         createBlockedPeriod(w, p, r[1], r[2])
    \/ \E id \in 1..(Len(blockedPeriods) + 1), p \in providers :
         deleteBlockedPeriod(w, id, p)
    \/ Alone(w) /\ \E d \in OneReq : CreateSelect(w, d)
    \/ Alone(w) /\ CreateVerify(w)
    \/ Alone(w) /\ CreateInsert(w)
    \/ Alone(w) /\ CreateCommit(w)
    \/ Return(w)

SpecBlocks == Init /\ [][NextBlocks]_vars

\* createBookingSafe calls one after another, some naming a missing row
NextMissing ==
  \E w \in Workers :
    \/ Alone(w) /\ \E d \in MissingReqs : CreateSelect(w, d)
    \/ Alone(w) /\ CreateVerify(w)
    \/ Alone(w) /\ CreateInsert(w)
    \/ Alone(w) /\ CreateCommit(w)
    \/ Alone(w) /\ Return(w)

SpecMissing == Init /\ [][NextMissing]_vars

(* ------------------------ schedule management ------------------------- *)

\* rule keys a provider can send: any day of the modelled week, any two
\* times of the day in either order
Dates == 0..1
DayTimes == 0..(DayLen - 1)

\* /^([0-1]?[0-9]|2[0-3]):[0-5][0-9]$/ on the start: one hour digit or two
TimeRegex(t, bare) == HourOf(t) \in 0..23 /\ (bare => HourOf(t) <= 9)

\* setProviderAvailability: update the rule with this key or create it;
\* startTime and startBare together stand for the startTime string
setProviderAvailability(providerId, dayOfWeek, startTime, startBare, endTime, isAvailable) ==
  LET existing == {r \in availability :
                     /\ r.providerId = providerId
                     /\ r.dayOfWeek = dayOfWeek
                     /\ r.startTime = startTime
                     /\ r.startBare = startBare
                     /\ r.endTime = endTime}
      rule == [providerId |-> providerId, dayOfWeek |-> dayOfWeek,
               startTime |-> startTime, startBare |-> startBare,
               endTime |-> endTime, isAvailable |-> isAvailable]
  IN /\ dayOfWeek >= 0 /\ dayOfWeek <= 6
     /\ TimeRegex(startTime, startBare) /\ TimeRegex(endTime, FALSE)
     /\ existing # {}
          \/ Cardinality(availability)
               < Cardinality(SeedAvailability) + MaxRules
     /\ availability' =
          IF existing # {}
          THEN (availability \ existing) \cup {rule}
          ELSE availability \cup {rule}
     /\ UNCHANGED <<bookings, blockedPeriods, now, tx, calls>>

\* the providers edit the first day of the weekly schedule, writing every
\* time with two hour digits
NextRules ==
  \E p \in providers, st \in DayTimes, en \in DayTimes, a \in BOOLEAN :
    setProviderAvailability(p, 0, st, FALSE, en, a)

SpecRules == Init /\ [][NextRules]_vars

\* the same with the start hour written with one digit or two
NextRuleText ==
  \E p \in providers, st \in DayTimes, bare \in BOOLEAN, en \in DayTimes,
     a \in BOOLEAN :
    setProviderAvailability(p, 0, st, bare, en, a)

SpecRuleText == Init /\ [][NextRuleText]_vars

(* --------------------------- slot generation --------------------------- *)

\* viewer time zones
Zones == DOMAIN TzOffset

\* instants of the two modelled days and the ranges a stored row can have:
\* well formed up to MaxTime + 1 ticks long, or empty
SlotTimes == 0..(DayLen + MaxTime)
SlotRanges ==
  {r \in SlotTimes \X SlotTimes : r[1] <= r[2] /\ r[2] - r[1] <= MaxTime + 1}

\* a bookings table left by one createBookingSafe call, cancelled or not
BookingRows ==
  {[providerId |-> p, serviceId |-> p, startTime |-> r[1], endTime |-> r[2],
    customerEmail |-> "a", status |-> st,
    version |-> IF st = "confirmed" THEN 1 ELSE 2] :
     p \in providers, r \in SlotRanges, st \in {"confirmed", "cancelled"}}
BookingTables == {<<>>} \cup {<<b>> : b \in BookingRows}

\* a blockedPeriods table left by at most one createBlockedPeriod call
BlockedRows ==
  {[providerId |-> p, startDatetime |-> r[1], endDatetime |-> r[2]] :
     p \in providers, r \in {q \in SlotRanges : q[1] < q[2]}}
BlockedTables == {<<>>} \cup {<<b>> : b \in BlockedRows}

\* the store after the seed script and at most one booking and one block
InitSlots ==
  /\ bookings \in BookingTables
  /\ blockedPeriods \in BlockedTables
  /\ availability = SeedAvailability
  /\ now = 0
  /\ tx = [w \in Workers |-> Idle]
  /\ calls = 0

\* the clock read by new Date() moves on
Tick ==
  /\ now < DayLen + MaxTime
  /\ now' = now + 1
  /\ UNCHANGED <<bookings, blockedPeriods, availability, tx, calls>>

\* the caller reads the slots of a day for its time zone and passes the
\* startTime and endTime of an available one to createBookingSafe
BookSlot(w, providerId, serviceId, date, customerTimezone) ==
  LET r == getAvailableSlots(providerId, serviceId, date, customerTimezone)
  IN \E k \in 1..Len(r.slots) :
       /\ r.slots[k].available
       /\ CreateSelect(w,
            [CreateBookingData(providerId, serviceId,
                               <<r.slots[k].startTime, r.slots[k].endTime>>,
                               "a")
               EXCEPT !.date = date, !.customerTimezone = customerTimezone,
                      !.slot = k])

\* bookings made from the slot list of the first day, one after another
NextBook ==
  \E w \in Workers :
    \/ Alone(w) /\ \E p \in providers, z \in Zones : BookSlot(w, p, p, 0, z)
    \/ Alone(w) /\ CreateVerify(w)
    \/ Alone(w) /\ CreateInsert(w)
    \/ Alone(w) /\ CreateCommit(w)
    \/ Alone(w) /\ Return(w)

SpecBook == Init /\ [][NextBook]_vars

NextSlots == Tick

SpecSlots == InitSlots /\ [][NextSlots]_vars

\* the reads of a day as the clock moves on, over the stores with at most
\* one row: a reservation that counts or a blocked period
InitClock ==
  /\ InitSlots
  /\ Len(bookings) + Len(blockedPeriods) <= 1
  /\ \A i \in 1..Len(bookings) : bookings[i].status # "cancelled"

SpecClock == InitClock /\ [][NextSlots]_vars

TypeOK ==
  /\ calls \in 0..MaxCalls
  /\ \A w \in Workers : tx[w].pc \in
       {"idle", "retry", "selected", "verified", "created", "cancelling",
        "updating", "done"}

(* ------------------------------ properties ----------------------------- *)

\* two half-open ranges share an instant
RangesIntersect(s1, e1, s2, e2) ==
  \E t \in Times : s1 <= t /\ t < e1 /\ s2 <= t /\ t < e2

Live(b) == b.status # "cancelled"

NonOverlapping(bks) ==
  \A i, j \in 1..Len(bks) :
    (i < j /\ bks[i].providerId = bks[j].providerId
           /\ Live(bks[i]) /\ Live(bks[j]))
    => ~RangesIntersect(bks[i].startTime, bks[i].endTime,
                        bks[j].startTime, bks[j].endTime)

CreateDone(w) == tx[w].pc = "done" /\ tx[w].op = "create"

\* a live row, committed before w's call began, that w's request intersects
LiveOverlapBefore(w) ==
  \E i \in 1..tx[w].snap :
    /\ bookings[i].providerId = tx[w].data.providerId
    /\ Live(bookings[i])
    /\ RangesIntersect(bookings[i].startTime, bookings[i].endTime,
                       tx[w].data.startTime, tx[w].data.endTime)

\* C1: under any interleaving of concurrent createBookingSafe calls on one
\* provider, no committed state of the bookings table holds two rows of that
\* provider, both not cancelled, whose half-open ranges overlap.
C1_NoDoubleBooking == NonOverlapping(bookings)

\* two calls with overlapping ranges and different starts raced: one
\* committed, the other was stopped by the isolation level
C1_Witness ==
  \E w, v \in Workers :
    /\ CreateDone(w) /\ tx[w].err = "40001"
    /\ CreateDone(v) /\ tx[v].result = "OK"
    /\ tx[w].data.startTime # tx[v].data.startTime
    /\ RangesIntersect(tx[w].data.startTime, tx[w].data.endTime,
                       tx[v].data.startTime, tx[v].data.endTime)

SameRequest(w, v) ==
  /\ tx[w].data.providerId = tx[v].data.providerId
  /\ tx[w].data.startTime = tx[v].data.startTime
  /\ tx[w].data.endTime = tx[v].data.endTime

RaceOver ==
  /\ \A w \in Workers : CreateDone(w)
  /\ \A w, v \in Workers : SameRequest(w, v)

C3_LosersGetSlotCodes ==
  \A w \in Workers :
    (CreateDone(w) /\ tx[w].result # "OK")
    => tx[w].result \in {"SLOT_UNAVAILABLE", "SLOT_BUSY"}

\* C4: no step of createBookingSafe, cancelBooking or updateBookingStatus
\* takes a bookings table without overlapping live rows to one with two
\* overlapping live rows of one provider.
C4_StatusChangeKeepsNonOverlap ==
  [][NonOverlapping(bookings) => NonOverlapping(bookings')]_vars

\* C5: once a reservation R is committed and not cancelled, a later call
\* that does not run concurrently with another and whose range overlaps R
\* fails with SLOT_UNAVAILABLE and inserts no row.
C5_LaterOverlapRejected ==
  \A w \in Workers :
    (CreateDone(w) /\ LiveOverlapBefore(w))
    => /\ tx[w].result = "SLOT_UNAVAILABLE"
       /\ tx[w].created = 0
       /\ Len(bookings) = tx[w].snap

\* a later call was rejected for a partial overlap with a different start
C5_Witness ==
  \E w \in Workers :
    /\ CreateDone(w) /\ tx[w].result = "SLOT_UNAVAILABLE"
    /\ \E i \in 1..tx[w].snap :
         /\ Live(bookings[i])
         /\ bookings[i].startTime # tx[w].data.startTime
         /\ RangesIntersect(bookings[i].startTime, bookings[i].endTime,
                            tx[w].data.startTime, tx[w].data.endTime)

\* nothing live and nothing blocked intersects [s, e) of provider p among
\* the first n rows
RangeFree(p, s, e, n) ==
  /\ \A i \in 1..n :
       (bookings[i].providerId = p /\ Live(bookings[i]))
       => ~RangesIntersect(bookings[i].startTime, bookings[i].endTime, s, e)
  /\ \A i \in 1..Len(blockedPeriods) :
       blockedPeriods[i].providerId = p
       => ~RangesIntersect(blockedPeriods[i].startDatetime,
                           blockedPeriods[i].endDatetime, s, e)

\* C6: after a reservation is cancelled and nothing else live or blocked
\* overlaps its former range, getAvailableSlots marks the slots inside that
\* range available again and createBookingSafe for exactly that range
\* succeeds.
C6_CancelledRangeBookableAgain ==
  /\ \A i \in 1..Len(bookings) :
       LET b == bookings[i]
           r == getAvailableSlots(b.providerId, b.serviceId, 0,
                                  SystemTimezone)
       IN (b.status = "cancelled" /\ b.startTime < b.endTime
           /\ RangeFree(b.providerId, b.startTime, b.endTime, Len(bookings)))
          => \A k \in 1..Len(r.slots) :
               (/\ b.startTime <= r.slots[k].startTime
                /\ r.slots[k].endTime <= b.endTime
                /\ r.slots[k].endTime > now)
               => r.slots[k].available
  /\ \A w \in Workers :
       (/\ CreateDone(w)
        /\ tx[w].data.startTime < tx[w].data.endTime
        /\ \E i \in 1..tx[w].snap :
             /\ bookings[i].status = "cancelled"
             /\ bookings[i].providerId = tx[w].data.providerId
             /\ bookings[i].startTime = tx[w].data.startTime
             /\ bookings[i].endTime = tx[w].data.endTime
        /\ RangeFree(tx[w].data.providerId, tx[w].data.startTime,
                     tx[w].data.endTime, tx[w].snap))
       => tx[w].result = "OK"

\* C7: a reservation changes only by confirmed -> cancelled, confirmed ->
\* completed or confirmed -> no_show; any other requested transition
\* leaves the reservation as it was.
C7_OnlyAllowedTransitions ==
  [][\A i \in 1..Len(bookings) :
       bookings'[i] # bookings[i]
       => /\ bookings[i].status = "confirmed"
          /\ bookings'[i].status \in {"cancelled", "completed", "no_show"}]_vars

\* another in-flight transaction holds the lock of a live row of provider
\* d.providerId that intersects d's range
Contended(w, d) ==
  \E v \in Workers \ {w} : \E i \in tx[v].locks :
    /\ bookings[i].providerId = d.providerId
    /\ Live(bookings[i])
    /\ RangesIntersect(bookings[i].startTime, bookings[i].endTime,
                       d.startTime, d.endTime)

C10_MalformedRangeRejected ==
  \A w \in Workers :
    (CreateDone(w) /\ tx[w].data.endTime <= tx[w].data.startTime)
    => /\ tx[w].result \notin
            {"OK", "SLOT_UNAVAILABLE", "SLOT_BUSY", "BOOKING_FAILED"}
       /\ tx[w].created = 0

\* the service of a row is a service of the row's provider
ServiceOfProvider(providerId, serviceId) ==
  /\ serviceId \in DOMAIN services
  /\ services[serviceId].providerId = providerId

\* C11: a createBookingSafe call naming an existing service of another
\* provider than the requested one fails and inserts nothing, and the service
\* of every stored reservation belongs to the reservation's provider.
C11_ServiceBelongsToProvider ==
  /\ \A w \in Workers :
       (/\ CreateDone(w)
        /\ tx[w].data.providerId \in providers
        /\ tx[w].data.serviceId \in DOMAIN services
        /\ ~ServiceOfProvider(tx[w].data.providerId, tx[w].data.serviceId))
       => /\ tx[w].result # "OK"
          /\ tx[w].created = 0
          /\ Len(bookings) = tx[w].snap
  /\ \A i \in 1..Len(bookings) :
       ServiceOfProvider(bookings[i].providerId, bookings[i].serviceId)

(* ---------------------- slot generator properties ---------------------- *)

\* instants the two modelled days and their neighbours cover
Instants == (0 - DayLen)..(3 * DayLen)

\* two half-open ranges of instants share an instant
Intersects(s1, e1, s2, e2) ==
  \E t \in Instants : s1 <= t /\ t < e1 /\ s2 <= t /\ t < e2

\* the instant at which the wall clock of provider p reads time t of a date
InstantOf(p, date, t) == date * DayLen + t - TzOffset[providerTimezone[p]]

Granularity(s) == services[s].durationMinutes + services[s].bufferTimeMinutes

\* the slots of one call as instants: the viewer zone of the running system
UtcSlots(p, s, date) == getAvailableSlots(p, s, date, SystemTimezone).slots

EnabledRules(p, date) ==
  {r \in availability :
     r.providerId = p /\ r.dayOfWeek = date % 7 /\ r.isAvailable}

\* floor((ruleEnd - ruleStart) / granularity), nothing for an empty span
CandidateCount(r, g) ==
  IF r.endTime >= r.startTime THEN (r.endTime - r.startTime) \div g ELSE 0

RECURSIVE TotalCandidates(_, _)
TotalCandidates(rules, g) ==
  IF rules = {} THEN 0
  ELSE LET r == CHOOSE q \in rules : TRUE
       IN CandidateCount(r, g) + TotalCandidates(rules \ {r}, g)

\* slot is the k-th candidate of rule r: it starts k granularities after
\* the rule's start, is one granularity long and ends by the rule's end
CandidateOf(slot, p, date, r, g, k) ==
  /\ slot.startTime = InstantOf(p, date, r.startTime) + k * g
  /\ slot.endTime = slot.startTime + g
  /\ slot.endTime <= InstantOf(p, date, r.endTime)

Straddles(out, p, i) ==
  /\ i + 1 <= Len(out)
  /\ out[i + 1].startTime = out[i].endTime
  /\ Len(bookings) = 1
  /\ bookings[1].providerId = p
  /\ bookings[1].status = "confirmed"
  /\ out[i].startTime < bookings[1].startTime
  /\ bookings[1].startTime < out[i].endTime
  /\ out[i + 1].startTime < bookings[1].endTime
  /\ bookings[1].endTime < out[i + 1].endTime
  /\ blockedPeriods = <<>>
  /\ now < out[i].endTime

\* C13 as stated: with one confirmed reservation that starts inside one slot
\* and ends inside the next (rule from 09:00, granularity 35, reservation
\* 10:00-10:30), the slot it starts in (09:35) is unavailable and the next
\* slot (10:10) is available.
C13_NextSlotAvailable ==
  \A p \in providers, date \in Dates :
    LET out == UtcSlots(p, p, date) IN
    \A i \in 1..Len(out) :
      Straddles(out, p, i)
      => ~out[i].available /\ out[i + 1].available

\* C13 (amended): in that situation both the slot the reservation starts in
\* and the next slot, which begins before the reservation ends, are
\* unavailable.
C13_BothSlotsUnavailable ==
  \A p \in providers, date \in Dates :
    LET out == UtcSlots(p, p, date) IN
    \A i \in 1..Len(out) :
      Straddles(out, p, i)
      => ~out[i].available /\ ~out[i + 1].available

\* a reservation straddles two consecutive slots of some day
C13_Witness ==
  \E p \in providers, date \in Dates :
    LET out == UtcSlots(p, p, date) IN
    \E i \in 1..Len(out) : Straddles(out, p, i)

\* the reservations of provider p that are not cancelled
LiveBookings(p) ==
  {bookings[i] : i \in {j \in 1..Len(bookings) :
                          bookings[j].providerId = p /\ Live(bookings[j])}}

BlocksOf(p) ==
  {blockedPeriods[i] : i \in {j \in 1..Len(blockedPeriods) :
                                blockedPeriods[j].providerId = p}}

\* no reservation that counts and no blocked interval of provider p shares
\* an instant with the slot
SlotFree(p, slot) ==
  /\ \A b \in LiveBookings(p) :
       ~Intersects(slot.startTime, slot.endTime, b.startTime, b.endTime)
  /\ \A b \in BlocksOf(p) :
       ~Intersects(slot.startTime, slot.endTime,
                   b.startDatetime, b.endDatetime)

\* C14: a slot that ends exactly where a reservation that is not cancelled
\* starts, overlaps nothing and is not past is available; a slot that starts
\* exactly where such a reservation starts is unavailable.
C14_BoundarySlots ==
  \A p \in providers, date \in Dates :
    LET out == UtcSlots(p, p, date) IN
    \A i \in 1..Len(out) : \A b \in LiveBookings(p) :
      /\ (/\ out[i].endTime = b.startTime
          /\ SlotFree(p, out[i])
          /\ out[i].endTime > now)
         => out[i].available
      /\ out[i].startTime = b.startTime => ~out[i].available

BlockIntersects(b, slot) ==
  Intersects(slot.startTime, slot.endTime, b.startDatetime, b.endDatetime)

BlockTouches(b, slot) ==
  b.endDatetime = slot.startTime \/ b.startDatetime = slot.endTime

\* C15: a slot that overlaps a blocked interval of the provider is
\* unavailable whatever reservations exist; a slot that blocked intervals
\* only touch, that no reservation concerns and that is not past stays
\* available.
C15_BlockedSlotsUnavailable ==
  \A p \in providers, date \in Dates :
    LET out == UtcSlots(p, p, date) IN
    \A i \in 1..Len(out) :
      /\ (\E b \in BlocksOf(p) : BlockIntersects(b, out[i]))
         => ~out[i].available
      /\ (/\ \E b \in BlocksOf(p) : BlockTouches(b, out[i])
          /\ \A b \in BlocksOf(p) : ~BlockIntersects(b, out[i])
          /\ LiveBookings(p) = {}
          /\ out[i].endTime > now)
         => out[i].available

\* one blocked interval makes a slot that is not past unavailable and only
\* touches the next slot, which is available
C15_Witness ==
  \E p \in providers, date \in Dates :
    LET out == UtcSlots(p, p, date) IN
    \E i \in 1..Len(out) : \E b \in BlocksOf(p) :
      /\ i + 1 <= Len(out)
      /\ BlockIntersects(b, out[i])
      /\ ~out[i].available
      /\ out[i].endTime > now
      /\ BlockTouches(b, out[i + 1])
      /\ ~BlockIntersects(b, out[i + 1])
      /\ out[i + 1].available

\* C16: a slot that overlaps a reservation of the provider that is not
\* cancelled is unavailable, also when the reservation starts before the
\* day of the request begins and reaches into it.
C16_BookedSlotsUnavailable ==
  \A p \in providers, date \in Dates :
    LET out == UtcSlots(p, p, date) IN
    \A i \in 1..Len(out) :
      (\E b \in LiveBookings(p) :
         Intersects(out[i].startTime, out[i].endTime, b.startTime, b.endTime))
      => ~out[i].available

\* C17: passing the startTime and endTime of a slot that getAvailableSlots
\* returned, for whatever viewer zone, unchanged to createBookingSafe stores
\* a reservation over the instants of that slot, and the next
\* getAvailableSlots call for the day lists the slot as unavailable.
C17_SlotBookedAsListed ==
  \A w \in Workers :
    (CreateDone(w) /\ tx[w].data.slot # 0)
    => LET d == tx[w].data
           slot == UtcSlots(d.providerId, d.serviceId, d.date)[d.slot]
           again == getAvailableSlots(d.providerId, d.serviceId, d.date,
                                      d.customerTimezone).slots[d.slot]
       IN /\ tx[w].result = "OK"
          /\ bookings[tx[w].created].startTime = slot.startTime
          /\ bookings[tx[w].created].endTime = slot.endTime
          /\ ~again.available

\* C18: for one provider, service, date and store, the i-th slot returned
\* for viewer zone A and the i-th returned for viewer zone B are the same
\* instants with the same flag, and converting B's output back to zone A
\* gives A's output.
C18_ZonesAgree ==
  \A p \in providers, date \in Dates, A \in Zones, B \in Zones :
    LET outA == getAvailableSlots(p, p, date, A).slots
        outB == getAvailableSlots(p, p, date, B).slots
    IN /\ Len(outA) = Len(outB)
       /\ \A i \in 1..Len(outA) :
            /\ outA[i].startTime = outB[i].startTime
            /\ outA[i].endTime = outB[i].endTime
            /\ outA[i].available = outB[i].available
            /\ toZonedTime(fromZonedTime(outB[i].startTime, B), A)
                 = outA[i].startTime
            /\ toZonedTime(fromZonedTime(outB[i].endTime, B), A)
                 = outA[i].endTime

\* the stored rows that getAvailableSlots reads are left as they are
NoWrites ==
  /\ bookings' = bookings
  /\ blockedPeriods' = blockedPeriods
  /\ availability' = availability

\* C19 (as stated): two reads with the same arguments and no write between
\* them return the same sequence of slots with the same flags.
C19_ReadsIdempotent ==
  [][NoWrites =>
       \A p \in providers, date \in Dates, z \in Zones :
         getAvailableSlots(p, p, date, z)' = getAvailableSlots(p, p, date, z)]_vars

\* the clock passes the end of none of the slots between the two reads
NoSlotEnds(out) ==
  \A i \in 1..Len(out) : (out[i].endTime <= now') = (out[i].endTime <= now)

\* C19 (amended): two reads with the same arguments, no write between them
\* and no slot of the output ending between them return the same sequence
\* of slots with the same flags.
C19_ReadsIdempotentWithinSlot ==
  [][NoWrites =>
       \A p \in providers, date \in Dates :
         LET out == UtcSlots(p, p, date)
         IN NoSlotEnds(out)
            => \A z \in Zones :
                 LET before == getAvailableSlots(p, p, date, z)
                 IN getAvailableSlots(p, p, date, z)' = before]_vars

\* the clock has moved on without reaching a slot end of some day whose
\* output has a slot that is under way and still available
C19_Witness ==
  /\ now > 0
  /\ \E p \in providers, date \in Dates :
       LET out == UtcSlots(p, p, date)
       IN /\ \A i \in 1..Len(out) : out[i].endTime # now
          /\ \E i \in 1..Len(out) : /\ out[i].available
                                     /\ out[i].startTime < now
                                     /\ out[i].endTime > now

\* the overlap test on half-open ranges: [a, b) and [c, d) overlap when
\* a < d and b > c
OverlapTest(a, b, c, d) == a < d /\ b > c

\* a reservation that counts or a blocked interval of provider p passes the
\* overlap test with the slot
HasCause(p, slot) ==
  \/ \E b \in LiveBookings(p) :
       OverlapTest(slot.startTime, slot.endTime, b.startTime, b.endTime)
  \/ \E b \in BlocksOf(p) :
       OverlapTest(slot.startTime, slot.endTime,
                   b.startDatetime, b.endDatetime)

ShortRule(r, g) == r.endTime - r.startTime < g

\* the slot lies inside the span of rule r of provider p on the date
InsideRule(slot, p, date, r) ==
  /\ InstantOf(p, date, r.startTime) <= slot.startTime
  /\ slot.endTime <= InstantOf(p, date, r.endTime)

\* C21: with no enabled rule for the day of the week (disabled rules do not
\* count) getAvailableSlots returns the empty sequence and no error, and a
\* rule shorter than one granularity adds no slot: the output has the
\* candidates of the other enabled rules only, each inside one of them.
C21_ClosedDayAndShortRules ==
  \A p \in providers, date \in Dates :
    LET g == Granularity(p)
        r == getAvailableSlots(p, p, date, SystemTimezone)
        rules == EnabledRules(p, date)
        long == {q \in rules : ~ShortRule(q, g)}
    IN /\ r.code = "OK"
       /\ rules = {} => r.slots = <<>>
       /\ Len(r.slots) = TotalCandidates(long, g)
       /\ \A i \in 1..Len(r.slots) :
            \E q \in long : InsideRule(r.slots[i], p, date, q)

\* one provider has only a disabled rule for the day and another has one
\* enabled rule, shorter than a granularity; both get the empty sequence
C21_Witness ==
  /\ \E p \in providers :
       /\ EnabledRules(p, 0) = {}
       /\ \E q \in availability :
            q.providerId = p /\ q.dayOfWeek = 0 /\ ~q.isAvailable
       /\ UtcSlots(p, p, 0) = <<>>
  /\ \E p \in providers :
       /\ \E q \in EnabledRules(p, 0) : q.endTime > q.startTime
       /\ \A q \in EnabledRules(p, 0) : ShortRule(q, Granularity(p))
       /\ UtcSlots(p, p, 0) = <<>>

\* the spans of two rules of a day share an instant
RulesOverlap(r, q) ==
  \E t \in DayTimes :
    /\ r.startTime <= t /\ t < r.endTime
    /\ q.startTime <= t /\ t < q.endTime

AnyIds == 1..3

\* C23: getAvailableSlots fails with PROVIDER_NOT_FOUND or SERVICE_NOT_FOUND
\* and returns no slots when the provider does not exist, the service does
\* not exist or the service is another provider's, and only then.
C23_SlotsNotFound ==
  \A p \in AnyIds, s \in AnyIds, date \in Dates, z \in Zones :
    LET r == getAvailableSlots(p, s, date, z)
    IN /\ p \notin providers
            => r.code = "PROVIDER_NOT_FOUND" /\ r.slots = <<>>
       /\ (p \in providers /\ ~ServiceOfProvider(p, s))
            => r.code = "SERVICE_NOT_FOUND" /\ r.slots = <<>>
       /\ (p \in providers /\ ServiceOfProvider(p, s)) => r.code = "OK"

\* a provider gets slots for its own service and SERVICE_NOT_FOUND for the
\* existing service of another provider, on a day with a stored row
C23_Witness ==
  /\ Len(bookings) + Len(blockedPeriods) > 0
  /\ \E p \in providers, s \in DOMAIN services, date \in Dates :
       /\ services[s].providerId # p
       /\ getAvailableSlots(p, s, date, SystemTimezone).code
            = "SERVICE_NOT_FOUND"
       /\ getAvailableSlots(p, p, date, SystemTimezone).slots # <<>>

\* worker w takes a step of an operation of kind op
StepOf(w, op) == tx'[w].op = op /\ tx'[w] # tx[w]

\* the step changes row id of the bookings table and no other row
OnlyRowChanged(id) ==
  /\ id \in 1..Len(bookings)
  /\ Len(bookings') = Len(bookings)
  /\ \A i \in 1..Len(bookings) : i # id => bookings'[i] = bookings[i]

\* C24: cancelBooking changes a reservation only when the email it is given
\* is the customerEmail of that reservation; with another email it fails
\* with UNAUTHORIZED and leaves the reservation as it was.
C24_CancelNeedsCustomerEmail ==
  [][\A w \in Workers :
       StepOf(w, "cancel")
       => LET id == tx'[w].data.bookingId
              email == tx'[w].data.customerEmail
          IN /\ (id \in 1..Len(bookings)
                 /\ bookings[id].customerEmail # email)
                => /\ tx'[w].pc = "done"
                   /\ tx'[w].result = "UNAUTHORIZED"
                   /\ bookings' = bookings
             /\ bookings' # bookings
                => /\ OnlyRowChanged(id)
                   /\ bookings[id].customerEmail = email]_vars

\* a cancelBooking call with another customer's email was turned away and
\* the reservation is still confirmed, at version 1
C24_Witness ==
  \E w \in Workers :
    /\ tx[w].pc = "done" /\ tx[w].op = "cancel"
    /\ tx[w].result = "UNAUTHORIZED"
    /\ tx[w].data.bookingId \in 1..Len(bookings)
    /\ bookings[tx[w].data.bookingId].customerEmail # tx[w].data.customerEmail
    /\ bookings[tx[w].data.bookingId].status = "confirmed"
    /\ bookings[tx[w].data.bookingId].version = 1

\* C25: updateBookingStatus changes a reservation only when the providerId
\* it is given is the providerId of that reservation; with another provider
\* it fails with UNAUTHORIZED and leaves the reservation as it was.
C25_StatusNeedsOwner ==
  [][\A w \in Workers :
       StepOf(w, "status")
       => LET id == tx'[w].data.bookingId
              providerId == tx'[w].data.providerId
          IN /\ (id \in 1..Len(bookings)
                 /\ bookings[id].providerId # providerId)
                => /\ tx'[w].pc = "done"
                   /\ tx'[w].result = "UNAUTHORIZED"
                   /\ bookings' = bookings
             /\ bookings' # bookings
                => /\ OnlyRowChanged(id)
                   /\ bookings[id].providerId = providerId]_vars

\* an updateBookingStatus call of another provider was turned away and the
\* reservation is still confirmed, at version 1
C25_Witness ==
  \E w \in Workers :
    /\ tx[w].pc = "done" /\ tx[w].op = "status"
    /\ tx[w].result = "UNAUTHORIZED"
    /\ tx[w].data.bookingId \in 1..Len(bookings)
    /\ bookings[tx[w].data.bookingId].providerId # tx[w].data.providerId
    /\ bookings[tx[w].data.bookingId].status = "confirmed"
    /\ bookings[tx[w].data.bookingId].version = 1

\* C26: a createBookingSafe transaction that runs into its timeout, or that
\* cannot be started within maxWait, persists no reservation and fails with
\* SLOT_BUSY, the code of a contended slot.
C26_TimeoutIsSlotBusy ==
  \A w \in Workers :
    (CreateDone(w) /\ tx[w].err = "P2028")
    => /\ tx[w].result = "SLOT_BUSY"
       /\ tx[w].created = 0

\* C27: a createBookingSafe call whose insert hits the unique key on
\* (providerId, startTime) fails with SLOT_UNAVAILABLE, persists nothing and
\* makes no further attempt.
C27_BackstopIsSlotUnavailable ==
  \A w \in Workers :
    (tx[w].op = "create" /\ tx[w].err = "P2002")
    => /\ tx[w].pc = "done"
       /\ tx[w].result = "SLOT_UNAVAILABLE"
       /\ tx[w].created = 0
       /\ tx[w].attempts = 1
       /\ \A i \in 1..Len(bookings) :
            (bookings[i].providerId = tx[w].data.providerId
             /\ bookings[i].startTime = tx[w].data.startTime)
            => \E v \in Workers \ {w} : tx[v].created = i

\* two calls for the same start both passed the lock query; one committed
\* and the insert of the other hit the unique key
C27_Witness ==
  \E w, v \in Workers :
    /\ CreateDone(w) /\ tx[w].err = "P2002"
    /\ tx[w].result = "SLOT_UNAVAILABLE"
    /\ CreateDone(v) /\ tx[v].result = "OK"
    /\ tx[v].data.startTime = tx[w].data.startTime
    /\ Len(bookings) = 1

\* the range requested by w shares no instant with the range requested by
\* any other call
DisjointFromOthers(w) ==
  \A v \in Workers \ {w} :
    tx[v].op = "create"
    => ~RangesIntersect(tx[w].data.startTime, tx[w].data.endTime,
                        tx[v].data.startTime, tx[v].data.endTime)

\* C28: createBookingSafe calls for one provider that run concurrently
\* against a clean schedule with ranges that do not overlap each other all
\* succeed, in every interleaving.
C28_DisjointCallsSucceed ==
  \A w \in Workers :
    (CreateDone(w) /\ DisjointFromOthers(w)) => tx[w].result = "OK"

\* every other call is for another provider than the call of w
OnlyCallOfProvider(w) ==
  \A v \in Workers \ {w} :
    tx[v].op = "create" => tx[v].data.providerId # tx[w].data.providerId

\* C29: reservations of one provider do not affect another: against a clean
\* schedule a createBookingSafe call succeeds whatever is stored or being
\* admitted for other providers, and getAvailableSlots marks no slot of a
\* provider without rows unavailable unless the slot is past.
C29_ProvidersIsolated ==
  /\ \A w \in Workers :
       (CreateDone(w) /\ OnlyCallOfProvider(w)) => tx[w].result = "OK"
  /\ \A p \in providers, date \in Dates :
       LET out == UtcSlots(p, p, date)
       IN (LiveBookings(p) = {} /\ BlocksOf(p) = {})
          => \A i \in 1..Len(out) :
               out[i].endTime > now => out[i].available

\* C30: every row createBookingSafe adds to the bookings table has status
\* confirmed, version 1 and the providerId, serviceId, start and end of the
\* request, and a call that succeeds has added one.
C30_CreatedRowAsRequested ==
  /\ [][\A i \in (Len(bookings) + 1)..Len(bookings') :
          /\ bookings'[i].status = "confirmed"
          /\ bookings'[i].version = 1
          /\ \E w \in Workers :
               /\ tx[w].op = "create"
               /\ tx'[w].created = i
               /\ bookings'[i].providerId = tx[w].data.providerId
               /\ bookings'[i].serviceId = tx[w].data.serviceId
               /\ bookings'[i].startTime = tx[w].data.startTime
               /\ bookings'[i].endTime = tx[w].data.endTime]_vars
  /\ [](\A w \in Workers :
          (CreateDone(w) /\ tx[w].result = "OK")
          => tx[w].created \in 1..Len(bookings))

\* a second call has succeeded and its row is the last of the table
C30_Witness ==
  \E w \in Workers :
    /\ CreateDone(w) /\ tx[w].result = "OK"
    /\ tx[w].created = Len(bookings)
    /\ Len(bookings) >= 2
    /\ bookings[tx[w].created].startTime = tx[w].data.startTime

\* C31: a createBookingSafe call that names a missing provider or service
\* fails with PROVIDER_NOT_FOUND or SERVICE_NOT_FOUND and inserts nothing,
\* unless its range overlaps a reservation that counts: then the overlap
\* check comes first and the call fails with SLOT_UNAVAILABLE.
C31_MissingRowsRejected ==
  \A w \in Workers :
    (/\ CreateDone(w)
     /\ \/ tx[w].data.providerId \notin providers
        \/ tx[w].data.serviceId \notin DOMAIN services)
    => /\ tx[w].created = 0
       /\ Len(bookings) = tx[w].snap
       /\ tx[w].result =
            IF LiveOverlapBefore(w) THEN "SLOT_UNAVAILABLE"
            ELSE IF tx[w].data.providerId \notin providers
                 THEN "PROVIDER_NOT_FOUND"
            ELSE "SERVICE_NOT_FOUND"

\* a call naming a missing service ran into a stored reservation and got
\* SLOT_UNAVAILABLE
C31_Witness ==
  \E w \in Workers :
    /\ CreateDone(w)
    /\ tx[w].data.providerId \in providers
    /\ tx[w].data.serviceId \notin DOMAIN services
    /\ LiveOverlapBefore(w)
    /\ tx[w].result = "SLOT_UNAVAILABLE"

\* a live row, committed before w's call began, whose range meets the
\* requested range end to start
TouchesLiveBefore(w) ==
  \E i \in 1..tx[w].snap :
    /\ bookings[i].providerId = tx[w].data.providerId
    /\ Live(bookings[i])
    /\ \/ bookings[i].endTime = tx[w].data.startTime
       \/ bookings[i].startTime = tx[w].data.endTime

\* C32: a createBookingSafe call whose range only touches a stored
\* non-cancelled reservation, and overlaps none, is admitted, and the table
\* it leaves has no two overlapping live rows if the table it found had none.
C32_TouchingAdmitted ==
  \A w \in Workers :
    (CreateDone(w) /\ TouchesLiveBefore(w) /\ ~LiveOverlapBefore(w))
    => /\ tx[w].result = "OK"
       /\ tx[w].created = Len(bookings)
       /\ NonOverlapping(SubSeq(bookings, 1, tx[w].snap))
            => NonOverlapping(bookings)

\* the columns of a reservation that no status operation may change
FixedColumns ==
  {"providerId", "serviceId", "startTime", "endTime", "customerEmail"}

\* the step completes w's cancelBooking or updateBookingStatus call with
\* success
StatusStepOk(w) ==
  /\ tx[w].pc \in {"cancelling", "updating"}
  /\ tx'[w].pc = "done"
  /\ tx'[w].result = "OK"

\* C33: a successful cancelBooking or updateBookingStatus changes nothing
\* but the status and the version of the reservation it names: that row
\* keeps its provider, service, start, end and customer, and every other
\* row stays as it was.
C33_StatusChangeFrame ==
  [][\A w \in Workers :
       StatusStepOk(w)
       => LET id == tx[w].data.bookingId
          IN /\ OnlyRowChanged(id)
             /\ DOMAIN bookings'[id] = DOMAIN bookings[id]
             /\ \A c \in FixedColumns : bookings'[id][c] = bookings[id][c]]_vars

\* a reservation was cancelled with success while another reservation of
\* the same provider is stored, still confirmed at version 1
C33_Witness ==
  \E w \in Workers :
    /\ tx[w].pc = "done" /\ tx[w].op = "cancel" /\ tx[w].result = "OK"
    /\ bookings[tx[w].data.bookingId].status = "cancelled"
    /\ bookings[tx[w].data.bookingId].version = 2
    /\ \E i \in 1..Len(bookings) :
         /\ i # tx[w].data.bookingId
         /\ bookings[i].providerId = bookings[tx[w].data.bookingId].providerId
         /\ bookings[i].status = "confirmed"
         /\ bookings[i].version = 1

\* the step completes a cancelBooking or updateBookingStatus call of w
\* with a failure
StatusStepFailed(w) ==
  /\ tx'[w] # tx[w]
  /\ tx'[w].op \in {"cancel", "status"}
  /\ tx'[w].pc = "done"
  /\ tx'[w].result # "OK"

\* C34: a reservation is stored with version 1 and no step lowers a
\* version; each step that completes a cancelBooking or updateBookingStatus
\* call with success raises the version of its reservation by exactly 1,
\* whatever other calls on that reservation are in flight, and a step that
\* completes such a call with a failure changes no version.
C34_VersionCounts ==
  [][/\ Len(bookings') >= Len(bookings)
     /\ \A i \in 1..Len(bookings') :
          IF i \in 1..Len(bookings)
          THEN bookings'[i].version >= bookings[i].version
          ELSE bookings'[i].version = 1
     /\ \A w \in Workers :
          /\ StatusStepOk(w)
             => bookings'[tx[w].data.bookingId].version
                  = bookings[tx[w].data.bookingId].version + 1
          /\ StatusStepFailed(w) => bookings' = bookings]_vars

\* two calls on one reservation were in flight together, both succeeded
\* and the version went from 1 to 3
C34_Witness ==
  \E w, v \in Workers :
    /\ w # v
    /\ tx[w].pc = "done" /\ tx[w].op = "status" /\ tx[w].result = "OK"
    /\ tx[v].pc = "done" /\ tx[v].op = "cancel" /\ tx[v].result = "OK"
    /\ tx[w].data.bookingId = tx[v].data.bookingId
    /\ bookings[tx[w].data.bookingId].version = 3

\* C35: of two cancelBooking calls on the same reservation with the
\* customer's email, at most one succeeds and the other fails with
\* ALREADY_CANCELLED; the reservation ends cancelled with its version raised
\* exactly once.
C35_OneCancelWins ==
  \A w, v \in Workers :
    (/\ w # v
     /\ tx[w].pc = "done" /\ tx[w].op = "cancel"
     /\ tx[v].pc = "done" /\ tx[v].op = "cancel"
     /\ tx[w].data.bookingId = tx[v].data.bookingId
     /\ tx[w].data.bookingId \in 1..Len(bookings)
     /\ tx[w].data.customerEmail = tx[v].data.customerEmail
     /\ tx[w].data.customerEmail
          = bookings[tx[w].data.bookingId].customerEmail)
    => /\ tx[w].result = "OK"
          => /\ tx[v].result = "ALREADY_CANCELLED"
             /\ bookings[tx[w].data.bookingId].status = "cancelled"
             /\ bookings[tx[w].data.bookingId].version = 2

\* the createBookingSafe calls that have returned a reservation
Returned == {w \in Workers : CreateDone(w) /\ tx[w].result = "OK"}

\* the codes of the BookingErrors that createBookingSafe raises
CreateErrorCodes ==
  {"SLOT_UNAVAILABLE", "PROVIDER_NOT_FOUND", "SERVICE_NOT_FOUND",
   "SLOT_BUSY", "BOOKING_FAILED"}

\* C36: createBookingSafe is all-or-nothing. The bookings table holds one
\* row for each call that has returned a reservation, that row being the
\* one the call asked for, and no row for any other call: a call that has
\* raised a BookingError, or that is still running, has added nothing.
C36_AllOrNothing ==
  /\ Len(bookings) = Cardinality(Returned)
  /\ \A w \in Returned :
       /\ tx[w].created \in 1..Len(bookings)
       /\ bookings[tx[w].created] = NewBooking(tx[w].data)
       /\ \A v \in Returned \ {w} : tx[v].created # tx[w].created
  /\ \A w \in Workers \ Returned :
       /\ tx[w].created = 0
       /\ CreateDone(w) => tx[w].result \in CreateErrorCodes

\* one call returned its reservation and another was rolled back by the
\* transaction timeout: the table holds the one row
C36_Witness ==
  \E w, v \in Workers :
    /\ w \in Returned
    /\ CreateDone(v) /\ tx[v].err = "P2028" /\ tx[v].result # "OK"
    /\ ~RangesIntersect(tx[w].data.startTime, tx[w].data.endTime,
                        tx[v].data.startTime, tx[v].data.endTime)
    /\ Len(bookings) = 1

\* the outcome as a function of the provider's live reservations that
\* overlap the requested range and of the existence of provider and service
OutcomeByOverlapAndExistence(w) ==
  IF LiveOverlapBefore(w) THEN "SLOT_UNAVAILABLE"
  ELSE IF tx[w].data.providerId \notin providers THEN "PROVIDER_NOT_FOUND"
  ELSE IF tx[w].data.serviceId \notin DOMAIN services
       THEN "SERVICE_NOT_FOUND"
  ELSE "OK"

\* C37: the outcome of a createBookingSafe call is determined by the
\* provider's non-cancelled reservations that overlap the requested range
\* and by the existence of the provider and the service, whatever the
\* blocked intervals, the availability rules and the clock are.
C37_OutcomeByOverlapAndExistence ==
  \A w \in Workers :
    CreateDone(w) => tx[w].result = OutcomeByOverlapAndExistence(w)

\* C38: for every slot that getAvailableSlots lists and that ends after the
\* current instant, the available flag is the answer of isSlotAvailable for
\* the provider and the slot's instants on the same stores.
C38_FlagIsSlotAvailable ==
  \A p \in providers, date \in Dates :
    LET out == UtcSlots(p, p, date) IN
    \A i \in 1..Len(out) :
      out[i].endTime > now
      => out[i].available
           = isSlotAvailable(p, out[i].startTime, out[i].endTime)

\* the step is a createBlockedPeriod call of w
BlockStep(w) == tx'[w] # tx[w] /\ tx'[w].op = "block"

\* the rows of a blocked_periods table
BlockSet(blks) == {blks[i] : i \in 1..Len(blks)}

\* C39: every stored blocked interval has its end after its start. A
\* createBlockedPeriod call with endDatetime <= startDatetime fails with
\* INVALID_PERIOD and stores nothing, any other createBlockedPeriod call
\* appends the interval it was given, and no other step adds an interval or
\* changes the bounds of one.
C39_BlockedIntervalsOrdered ==
  [][/\ \A b \in BlockSet(blockedPeriods') : b.endDatetime > b.startDatetime
     /\ \A w \in Workers :
          BlockStep(w)
          => IF tx'[w].data.endTime <= tx'[w].data.startTime
             THEN /\ tx'[w].result = "INVALID_PERIOD"
                  /\ blockedPeriods' = blockedPeriods
             ELSE /\ tx'[w].result = "OK"
                  /\ Len(blockedPeriods') = Len(blockedPeriods) + 1
                  /\ SubSeq(blockedPeriods', 1, Len(blockedPeriods))
                       = blockedPeriods
                  /\ blockedPeriods'[Len(blockedPeriods')].startDatetime
                       = tx'[w].data.startTime
                  /\ blockedPeriods'[Len(blockedPeriods')].endDatetime
                       = tx'[w].data.endTime
     /\ (\A w \in Workers : ~BlockStep(w))
        => BlockSet(blockedPeriods') \subseteq BlockSet(blockedPeriods)]_vars

\* a createBlockedPeriod call with equal start and end was refused while a
\* blocked interval stored by an earlier call is in the table
C39_Witness ==
  \E w, v \in Workers :
    /\ tx[w].pc = "done" /\ tx[w].op = "block"
    /\ tx[w].data.endTime = tx[w].data.startTime
    /\ tx[w].result = "INVALID_PERIOD"
    /\ tx[v].pc = "done" /\ tx[v].op = "block" /\ tx[v].result = "OK"
    /\ Len(blockedPeriods) = 1
    /\ blockedPeriods[1].startDatetime = tx[v].data.startTime
    /\ blockedPeriods[1].endDatetime = tx[v].data.endTime

====
